---------------------------- MODULE Spec2Model ----------------------------
(***************************************************************************)
(* Model of app/server_platform.py: the certificate store helpers, the     *)
(* TLS context builder, the request relay and the signature service.       *)
(*                                                                         *)
(* Text is a sequence of Unicode code points (Python str), bytes are a     *)
(* sequence of numbers 0..255 (Python bytes), None is Python's None.       *)
(***************************************************************************)
EXTENDS Integers, Sequences, FiniteSets, TLC

\* an optional value (Python's T | None) is None or Some(x)
None == <<>>
Some(x) == <<x>>

\* the err of an outcome that raised nothing
NoError == "no error"

\* -------------------------------------------------------------------------
\* Bounds of the model
\* -------------------------------------------------------------------------
\* every path over PathAlphabet up to this length is tried as a key path
MaxPathLen == 4

\* -------------------------------------------------------------------------
\* Characters the code names
\* -------------------------------------------------------------------------
CR == 13
LF == 10
Slash == 47
Dot == 46
Dash == 45
Underscore == 95
Colon == 58
Space == 32

\* -------------------------------------------------------------------------
\* Generic helpers on sequences
\* -------------------------------------------------------------------------
Range(s) == {s[i] : i \in DOMAIN s}

IsPrefix(p, s) == Len(p) <= Len(s) /\ \A i \in 1..Len(p) : p[i] = s[i]

StartsWith(s, p) == IsPrefix(p, s)

RECURSIVE Concat(_)
\* the concatenation of a sequence of sequences
Concat(ss) == IF ss = <<>> THEN <<>> ELSE Head(ss) \o Concat(Tail(ss))

RECURSIVE Join(_, _)
\* sep.join(parts)
Join(sep, parts) ==
    IF parts = <<>> THEN <<>>
    ELSE IF Len(parts) = 1 THEN parts[1]
    ELSE parts[1] \o sep \o Join(sep, Tail(parts))

RECURSIVE SplitFrom(_, _, _)
\* str.split(sep) for a one-character separator, cur being the piece in progress
SplitFrom(s, sep, cur) ==
    IF s = <<>> THEN <<cur>>
    ELSE IF Head(s) = sep THEN <<cur>> \o SplitFrom(Tail(s), sep, <<>>)
    ELSE SplitFrom(Tail(s), sep, Append(cur, Head(s)))

Split(s, sep) == SplitFrom(s, sep, <<>>)

\* all sequences over S of length at most n
SeqsUpTo(S, n) == UNION {[1..k -> S] : k \in 0..n}

\* -------------------------------------------------------------------------
\* str.upper(), for the ASCII and Latin-1 letters with a one-character upper case
\* -------------------------------------------------------------------------
UpperChar(c) ==
    IF c >= 97 /\ c <= 122 THEN c - 32
    ELSE IF c >= 224 /\ c <= 254 /\ c # 247 THEN c - 32
    ELSE c

Upper(s) == [i \in DOMAIN s |-> UpperChar(s[i])]

\* -------------------------------------------------------------------------
\* _read_key_password
\* -------------------------------------------------------------------------
PASSWORD_SUFFIX == <<95, 80, 65, 83, 83, 87, 79, 82, 68>>  \* "_PASSWORD"

\* a mutant: the pattern without the slash
ReSubDashDot(s) ==
    [i \in DOMAIN s |-> IF s[i] \in {Dash, Dot} THEN Underscore ELSE s[i]]

\* re.sub(r"[\-\.\/]", "_", s)
ReSubDashDotSlash(s) ==
    [i \in DOMAIN s |-> IF s[i] \in {Dash, Dot, Slash} THEN Underscore ELSE s[i]]

PasswordVarName(key_path) == Upper(ReSubDashDotSlash(key_path)) \o PASSWORD_SUFFIX

\* os.environ.get(name): environ is a set of <<name, value>> pairs, one per name
EnvironGet(environ, name) ==
    IF \E e \in environ : e[1] = name
    THEN Some((CHOOSE e \in environ : e[1] = name)[2])
    ELSE None

_read_key_password(environ, key_path) == EnvironGet(environ, PasswordVarName(key_path))

\* -------------------------------------------------------------------------
\* posixpath: join, normpath, abspath, commonpath
\* -------------------------------------------------------------------------
DotDot == <<Dot, Dot>>

\* os.path.join(a, b)
PathJoin(a, b) ==
    IF b # <<>> /\ b[1] = Slash THEN b
    ELSE IF a = <<>> \/ a[Len(a)] = Slash THEN a \o b
    ELSE a \o <<Slash>> \o b

\* the number of leading slashes normpath keeps: 0, 1, or 2 for exactly two
InitialSlashes(path) ==
    IF ~StartsWith(path, <<Slash>>) THEN 0
    ELSE IF StartsWith(path, <<Slash, Slash>>) /\ ~StartsWith(path, <<Slash, Slash, Slash>>)
         THEN 2
    ELSE 1

RECURSIVE NormComps(_, _, _)
\* normpath's loop over the components, new_comps being the list built so far
NormComps(comps, new_comps, initial_slashes) ==
    IF comps = <<>> THEN new_comps
    ELSE LET comp == Head(comps)
             rest == Tail(comps)
         IN IF comp = <<>> \/ comp = <<Dot>>
            THEN NormComps(rest, new_comps, initial_slashes)
            ELSE IF comp # DotDot
                    \/ (initial_slashes = 0 /\ new_comps = <<>>)
                    \/ (new_comps # <<>> /\ new_comps[Len(new_comps)] = DotDot)
                 THEN NormComps(rest, Append(new_comps, comp), initial_slashes)
                 ELSE IF new_comps # <<>>
                      THEN NormComps(rest, SubSeq(new_comps, 1, Len(new_comps) - 1),
                                     initial_slashes)
                      ELSE NormComps(rest, new_comps, initial_slashes)

\* os.path.normpath(path)
NormPath(path) ==
    IF path = <<>> THEN <<Dot>>
    ELSE LET n == InitialSlashes(path)
             comps == NormComps(Split(path, Slash), <<>>, n)
             joined == [i \in 1..n |-> Slash] \o Join(<<Slash>>, comps)
         IN IF joined = <<>> THEN <<Dot>> ELSE joined

\* os.path.abspath(path) for an absolute path (the join with an absolute root is
\* always absolute, so the working directory is never consulted)
AbsPath(path) == NormPath(path)

\* the components commonpath compares: split on "/", the empty ones and "." dropped
SplitComps(path) ==
    SelectSeq(Split(path, Slash), LAMBDA c : c # <<>> /\ c # <<Dot>>)

RECURSIVE CommonPrefix(_, _)
CommonPrefix(s1, s2) ==
    IF s1 = <<>> \/ s2 = <<>> \/ Head(s1) # Head(s2) THEN <<>>
    ELSE <<Head(s1)>> \o CommonPrefix(Tail(s1), Tail(s2))

\* a mutant: os.path.commonprefix, which compares character by character
CommonPrefixOfStrings(a, b) == CommonPrefix(a, b)

\* os.path.commonpath([a, b]) of two absolute paths
CommonPath(a, b) ==
    <<Slash>> \o Join(<<Slash>>, CommonPrefix(SplitComps(a), SplitComps(b)))

\* "/app/open_banking_certs", the default of the OB_CERTS_DIR variable
DEFAULT_OB_CERTS_DIR ==
    <<47, 97, 112, 112, 47, 111, 112, 101, 110, 95, 98, 97, 110, 107, 105, 110, 103,
      95, 99, 101, 114, 116, 115>>

OB_CERTS_DIR == AbsPath(DEFAULT_OB_CERTS_DIR)

ERR_NOT_INSIDE == "ValueError: path is not inside open banking certificates directory"

\* ServerPlatform._get_ob_certs_file_path: [err, path]
GetObCertsFilePath(path) ==
    LET abspath == AbsPath(PathJoin(OB_CERTS_DIR, path))
    IN IF CommonPath(OB_CERTS_DIR, abspath) # OB_CERTS_DIR
       THEN [err |-> ERR_NOT_INSIDE, path |-> None]
       ELSE [err |-> NoError, path |-> abspath]


\* -------------------------------------------------------------------------
\* ServerPlatform.get_ssl_context
\* -------------------------------------------------------------------------
CERT_NONE == 0
CERT_REQUIRED == 2
\* ssl.VERIFY_X509_TRUSTED_FIRST, the verify_flags of a fresh context
VERIFY_X509_TRUSTED_FIRST == 32768

VERIFY_CERT == <<118, 101, 114, 105, 102, 121, 95, 99, 101, 114, 116>>  \* "verify_cert"

ERR_CA_REQUIRED == "Exception: ca_cert_path must be specified when verify_cert is set"
ERR_SSL_LOAD == "ssl.SSLError: cannot load certificate material"

\* a mutant: the fresh context does not validate the server
CreateDefaultContextUnverified ==
    [verify_mode |-> CERT_NONE, check_hostname |-> FALSE,
     verify_flags |-> VERIFY_X509_TRUSTED_FIRST,
     cert_chain |-> None, verify_locations |-> None]

\* ssl.create_default_context(): a client context that validates the server
CreateDefaultContext ==
    [verify_mode |-> CERT_REQUIRED, check_hostname |-> TRUE,
     verify_flags |-> VERIFY_X509_TRUSTED_FIRST,
     cert_chain |-> None, verify_locations |-> None]

\* ssl._create_unverified_context()
CreateUnverifiedContext ==
    [verify_mode |-> CERT_NONE, check_hostname |-> FALSE,
     verify_flags |-> VERIFY_X509_TRUSTED_FIRST,
     cert_chain |-> None, verify_locations |-> None]

\* Python truthiness of a str | None
Truthy(v) == v # None /\ v[1] # <<>>

\* a mutant: the strict branch never taken
VerifyCertIgnored(environ) == FALSE

\* os.getenv("verify_cert", False) taken as a condition
VerifyCertSet(environ) == Truthy(EnvironGet(environ, VERIFY_CERT))

\* the outcome of get_ssl_context and what it touched on the way
SslOutcome(err, ctx, loads, lookups) ==
    [err |-> err, ctx |-> ctx, loads |-> loads, lookups |-> lookups]

\* lines 170-178: the verification policy applied to a context whose loads are done
ApplyVerifyPolicy(tls, environ, ctx, loads, lookups) ==
    IF VerifyCertSet(environ)
    THEN IF ~Truthy(tls.ca_cert_path)
         THEN SslOutcome(ERR_CA_REQUIRED, None, loads, lookups)
         ELSE SslOutcome(NoError, Some([ctx EXCEPT !.verify_flags = CERT_REQUIRED]),
                         loads, lookups)
    ELSE SslOutcome(NoError,
                    Some([ctx EXCEPT !.check_hostname = FALSE, !.verify_mode = CERT_NONE]),
                    loads, lookups)

\* lines 165-168: the optional CA bundle; fs.caOk says whether the file loads
LoadVerifyLocations(tls, environ, fs, ctx, loads, lookups) ==
    IF Truthy(tls.ca_cert_path)
    THEN LET ca == GetObCertsFilePath(tls.ca_cert_path[1])
         IN IF ca.err # NoError THEN SslOutcome(ca.err, None, loads, lookups)
            ELSE IF ~fs.caOk
                 THEN SslOutcome(ERR_SSL_LOAD, None, Append(loads, ca.path), lookups)
                 ELSE ApplyVerifyPolicy(tls, environ,
                                        [ctx EXCEPT !.verify_locations = Some(ca.path)],
                                        Append(loads, ca.path), lookups)
    ELSE ApplyVerifyPolicy(tls, environ, ctx, loads, lookups)

\* ServerPlatform.get_ssl_context(tls). fs is what the files turn out to be:
\* certOk (the chain and key load, the password fitting), keyEncrypted (OpenSSL asks
\* the password callback), caOk.
get_ssl_context(tls_opt, environ, fs) ==
    IF tls_opt # None
    THEN LET tls == tls_opt[1]
             cert == GetObCertsFilePath(tls.cert_path)
             key == GetObCertsFilePath(tls.key_path)
             lookups == IF fs.keyEncrypted THEN <<PasswordVarName(tls.key_path)>> ELSE <<>>
         IN IF cert.err # NoError THEN SslOutcome(cert.err, None, <<>>, <<>>)
            ELSE IF key.err # NoError THEN SslOutcome(key.err, None, <<>>, <<>>)
            ELSE IF ~fs.certOk
                 THEN SslOutcome(ERR_SSL_LOAD, None, <<cert.path, key.path>>, lookups)
                 ELSE LoadVerifyLocations(
                          tls, environ, fs,
                          [CreateDefaultContext EXCEPT !.cert_chain = Some(<<cert.path, key.path>>)],
                          <<cert.path, key.path>>, lookups)
    ELSE SslOutcome(NoError, Some(CreateUnverifiedContext), <<>>, <<>>)

\* -------------------------------------------------------------------------
\* _safe_header, _py_serialize_headers
\* -------------------------------------------------------------------------
ERR_HEADER_INJECTION ==
    "ValueError: Newline or carriage return detected in headers. Potential header injection attack."
ERR_UNICODE_ENCODE == "UnicodeEncodeError: 'latin-1' codec can't encode character"

CRLF == <<CR, LF>>

\* a mutant: only the line feed is looked for
HasLineFeedOnly(string) == LF \in Range(string)

\* _safe_header(string) raises exactly when this holds
HasNewline(string) == CR \in Range(string) \/ LF \in Range(string)

\* str.encode("latin-1"): [err, bytes]
EncodeLatin1(line) ==
    IF \E i \in DOMAIN line : line[i] > 255
    THEN [err |-> ERR_UNICODE_ENCODE, bytes |-> None]
    ELSE [err |-> NoError, bytes |-> line]

\* _py_serialize_headers(status_line, headers): [err, bytes]; headers is the
\* multidict's items() in order, a sequence of <<name, value>>
_py_serialize_headers(status_line, headers) ==
    IF \E i \in DOMAIN headers : HasNewline(headers[i][1]) \/ HasNewline(headers[i][2])
    THEN [err |-> ERR_HEADER_INJECTION, bytes |-> None]
    ELSE LET headers_gen ==
                 [i \in DOMAIN headers |-> headers[i][1] \o <<Colon, Space>> \o headers[i][2]]
             line == status_line \o CRLF \o Join(CRLF, headers_gen) \o CRLF \o CRLF
         IN EncodeLatin1(line)

\* -------------------------------------------------------------------------
\* UTF-8: bytes.decode("utf-8") and str.encode("utf-8")
\* -------------------------------------------------------------------------
ERR_UNICODE_DECODE == "UnicodeDecodeError: 'utf-8' codec can't decode byte"

IsCont(b) == b >= 128 /\ b <= 191

RECURSIVE Utf8DecodeFrom(_, _)
\* the text decoded so far is acc; Some(text), or None when a byte cannot be decoded
Utf8DecodeFrom(bytes, acc) ==
    IF bytes = <<>> THEN Some(acc)
    ELSE LET b == bytes[1]
         IN IF b < 128
            THEN Utf8DecodeFrom(Tail(bytes), Append(acc, b))
            ELSE IF b >= 194 /\ b <= 223 /\ Len(bytes) >= 2 /\ IsCont(bytes[2])
            THEN Utf8DecodeFrom(SubSeq(bytes, 3, Len(bytes)),
                                Append(acc, (b - 192) * 64 + (bytes[2] - 128)))
            ELSE IF b >= 224 /\ b <= 239 /\ Len(bytes) >= 3
                    /\ IsCont(bytes[2]) /\ IsCont(bytes[3])
                    /\ (b = 224 => bytes[2] >= 160)       \* no overlong form
                    /\ (b = 237 => bytes[2] <= 159)       \* no surrogate
            THEN Utf8DecodeFrom(SubSeq(bytes, 4, Len(bytes)),
                                Append(acc, (b - 224) * 4096 + (bytes[2] - 128) * 64
                                            + (bytes[3] - 128)))
            ELSE IF b >= 240 /\ b <= 244 /\ Len(bytes) >= 4
                    /\ IsCont(bytes[2]) /\ IsCont(bytes[3]) /\ IsCont(bytes[4])
                    /\ (b = 240 => bytes[2] >= 144)
                    /\ (b = 244 => bytes[2] <= 143)
            THEN Utf8DecodeFrom(SubSeq(bytes, 5, Len(bytes)),
                                Append(acc, (b - 240) * 262144 + (bytes[2] - 128) * 4096
                                            + (bytes[3] - 128) * 64 + (bytes[4] - 128)))
            ELSE None

\* bytes.decode("utf-8"): [err, text]
Utf8Decode(bytes) ==
    LET text == Utf8DecodeFrom(bytes, <<>>)
    IN IF text = None THEN [err |-> ERR_UNICODE_DECODE, text |-> None]
       ELSE [err |-> NoError, text |-> text[1]]

Utf8EncodeChar(c) ==
    IF c < 128 THEN <<c>>
    ELSE IF c < 2048 THEN <<192 + (c \div 64), 128 + (c % 64)>>
    ELSE IF c < 65536
    THEN <<224 + (c \div 4096), 128 + ((c \div 64) % 64), 128 + (c % 64)>>
    ELSE <<240 + (c \div 262144), 128 + ((c \div 4096) % 64), 128 + ((c \div 64) % 64),
           128 + (c % 64)>>

\* str.encode("utf-8")
Utf8Encode(text) == Concat([i \in DOMAIN text |-> Utf8EncodeChar(text[i])])

\* ServerPlatform._force_bytes: value is [type |-> "str" | "bytes", v |-> ...]
_force_bytes(value) == IF value.type = "str" THEN Utf8Encode(value.v) ELSE value.v

\* -------------------------------------------------------------------------
\* ServerPlatform._handle_binary_response
\* -------------------------------------------------------------------------
\* A response body is [raw, archive]: its bytes, and what zipfile.ZipFile makes of
\* them: None (BadZipFile on opening) or Some(the entries in namelist() order), each
\* [name, data, intact], ZipFile.read raising BadZipFile on an entry that is not
\* intact (a CRC mismatch).
ERR_INDEX == "IndexError: list index out of range"

\* _handle_binary_response(response): [err, bytes]
_handle_binary_response(response) ==
    IF response.archive = None
    THEN [err |-> NoError, bytes |-> response.raw]         \* except BadZipFile
    ELSE LET namelist == response.archive[1]
         IN IF namelist = <<>>
            THEN [err |-> ERR_INDEX, bytes |-> None]       \* namelist()[0]
            ELSE IF ~namelist[1].intact
            THEN [err |-> NoError, bytes |-> response.raw] \* except BadZipFile
            ELSE [err |-> NoError, bytes |-> namelist[1].data]

\* -------------------------------------------------------------------------
\* Signature encodings. A big integer (r, s) is its minimal big-endian byte
\* string: non-empty, without a leading zero byte.
\* -------------------------------------------------------------------------
ERR_OVERFLOW == "OverflowError: int too big to convert"
ERR_ODD_LENGTH == "binascii.Error: Odd-length string"
ERR_WRONG_HASH_DECODE == "ValueError: Wrong hash algorithm"

Zeros(n) == [i \in 1..n |-> 0]

\* DER INTEGER of a positive integer: a zero byte is put before a set top bit
DerInteger(n) ==
    LET content == IF n[1] >= 128 THEN <<0>> \o n ELSE n
    IN <<2, Len(content)>> \o content

\* DER definite length, below 256
DerLength(len) == IF len < 128 THEN <<len>> ELSE <<129, len>>

\* the DER Ecdsa-Sig-Value key.sign(data, ec.ECDSA(...)) returns for (r, s)
EncodeDssSignature(r, s) ==
    LET body == DerInteger(r) \o DerInteger(s)
    IN <<48>> \o DerLength(Len(body)) \o body

RECURSIVE StripZeros(_)
StripZeros(bytes) ==
    IF Len(bytes) > 1 /\ bytes[1] = 0 THEN StripZeros(Tail(bytes)) ELSE bytes

\* cryptography's decode_dss_signature(signature): [r, s]
decode_dss_signature(signature) ==
    LET start == IF signature[2] < 128 THEN 3 ELSE 4
        rlen == signature[start + 1]
        rend == start + 1 + rlen
        slen == signature[rend + 2]
    IN [r |-> StripZeros(SubSeq(signature, start + 2, rend)),
        s |-> StripZeros(SubSeq(signature, rend + 3, rend + 2 + slen))]

\* cryptography.utils.int_to_bytes(integer, length): [err, bytes]. The library
\* has shipped two bodies: integer.to_bytes(length, "big"), and
\* binascii.unhexlify(("%x" % integer).zfill(2 * length)).
int_to_bytes(integer, length, lib) ==
    IF lib = "to_bytes"
    THEN IF Len(integer) > length THEN [err |-> ERR_OVERFLOW, bytes |-> None]
         ELSE [err |-> NoError, bytes |-> Zeros(length - Len(integer)) \o integer]
    ELSE LET hexlen == 2 * Len(integer) - (IF integer[1] < 16 THEN 1 ELSE 0)
         IN IF hexlen <= 2 * length
            THEN [err |-> NoError, bytes |-> Zeros(length - Len(integer)) \o integer]
            ELSE IF hexlen % 2 = 1 THEN [err |-> ERR_ODD_LENGTH, bytes |-> None]
            ELSE [err |-> NoError, bytes |-> integer]

SHA256 == <<83, 72, 65, 50, 53, 54>>  \* "SHA256"
SHA256_BITS == 256

\* num_bytes = (num_bits + 7) // 8
NumBytes(num_bits) == (num_bits + 7) \div 8

\* ServerPlatform._decode_signature(signature, hash_algorithm): [err, bytes]
_decode_signature(signature, hash_algorithm, lib) ==
    IF hash_algorithm # SHA256 THEN [err |-> ERR_WRONG_HASH_DECODE, bytes |-> None]
    ELSE LET num_bytes == NumBytes(SHA256_BITS)
             rs == decode_dss_signature(signature)
             r == int_to_bytes(rs.r, num_bytes, lib)
             s == int_to_bytes(rs.s, num_bytes, lib)
         IN IF r.err # NoError THEN [err |-> r.err, bytes |-> None]
            ELSE IF s.err # NoError THEN [err |-> s.err, bytes |-> None]
            ELSE [err |-> NoError, bytes |-> r.bytes \o s.bytes]

\* -------------------------------------------------------------------------
\* base64.b64encode(...).decode("utf8")
\* -------------------------------------------------------------------------
B64Char(i) ==
    IF i < 26 THEN 65 + i
    ELSE IF i < 52 THEN 97 + (i - 26)
    ELSE IF i < 62 THEN 48 + (i - 52)
    ELSE IF i = 62 THEN 43 ELSE 47

B64Pad == 61

RECURSIVE B64Encode(_)
B64Encode(bytes) ==
    IF bytes = <<>> THEN <<>>
    ELSE IF Len(bytes) = 1
    THEN <<B64Char(bytes[1] \div 4), B64Char((bytes[1] % 4) * 16), B64Pad, B64Pad>>
    ELSE IF Len(bytes) = 2
    THEN <<B64Char(bytes[1] \div 4),
           B64Char((bytes[1] % 4) * 16 + (bytes[2] \div 16)),
           B64Char((bytes[2] % 16) * 4), B64Pad>>
    ELSE <<B64Char(bytes[1] \div 4),
           B64Char((bytes[1] % 4) * 16 + (bytes[2] \div 16)),
           B64Char((bytes[2] % 16) * 4 + (bytes[3] \div 64)),
           B64Char(bytes[3] % 64)>> \o B64Encode(SubSeq(bytes, 4, Len(bytes)))

\* -------------------------------------------------------------------------
\* ServerPlatform.signWithKey
\* -------------------------------------------------------------------------
ERR_KEY == "KeyError"
ERR_WRONG_HASH == "AttributeError: Wrong hash algorithm"
ERR_FILE == "OSError: cannot open the key file"
ERR_KEY_LOAD == "ValueError: Could not deserialize key data"

PS == <<80, 83>>  \* "PS"

\* hash_algorithms_map = {"SHA256": hashes.SHA256}
HashAlgorithmsMap == {SHA256}

\* hash_algorithms_map[hash_algorithm]: the error the subscript raises
HashLookupError(hash_algorithm) ==
    IF hash_algorithm \in HashAlgorithmsMap THEN NoError ELSE ERR_KEY

\* the try statement of lines 303-308: only an AttributeError is caught and
\* replaced, any other error leaves signWithKey as it is
ExceptAttributeError(raised) ==
    IF raised = "AttributeError" THEN ERR_WRONG_HASH ELSE raised

SignOutcome(err, value, signature, scheme, loads, lookups) ==
    [err |-> err, value |-> value, signature |-> signature, scheme |-> scheme,
     loads |-> loads, lookups |-> lookups]

\* line 332
SignEllipticCurve(der, hash_algorithm, lib) == _decode_signature(der, hash_algorithm, lib)

\* lines 318-333: the signature for the loaded key. kf.key is the key's type,
\* kf.rsa_sig what an RSA key's sign returns, kf.r and kf.s what ECDSA drew.
SignLoadedKey(hash_algorithm, crypto_algorithm, kf, lib, loads, lookups) ==
    IF kf.key = "RSA"
    THEN SignOutcome(NoError, Some(B64Encode(kf.rsa_sig)), Some(kf.rsa_sig),
                     IF Truthy(crypto_algorithm) /\ crypto_algorithm[1] = PS
                     THEN "PSS" ELSE "PKCS1v15",
                     loads, lookups)
    ELSE IF kf.key = "EC"
    THEN LET sig == SignEllipticCurve(EncodeDssSignature(kf.r, kf.s), hash_algorithm, lib)
         IN IF sig.err # NoError
            THEN SignOutcome(sig.err, None, None, "ECDSA", loads, lookups)
            ELSE SignOutcome(NoError, Some(B64Encode(sig.bytes)), Some(sig.bytes), "ECDSA",
                             loads, lookups)
    ELSE SignOutcome(NoError, Some(B64Encode(<<>>)), Some(<<>>), "none", loads, lookups)

\* signWithKey(data, key_path, hash_algorithm, crypto_algorithm). kf is what the
\* key file turns out to be: readable, loads (the PEM and the password fit), key.
signWithKey(data, key_path, hash_algorithm_opt, crypto_algorithm, environ, kf, lib) ==
    LET hash_algorithm ==
            Upper(IF hash_algorithm_opt = None THEN SHA256 ELSE hash_algorithm_opt[1])
        raised == ExceptAttributeError(HashLookupError(hash_algorithm))
        bytes == _force_bytes(data)
        file == GetObCertsFilePath(key_path)
        lookups == <<PasswordVarName(key_path)>>
    IN IF raised # NoError THEN SignOutcome(raised, None, None, "none", <<>>, <<>>)
       ELSE IF file.err # NoError
       THEN SignOutcome(file.err, None, None, "none", <<>>, <<>>)
       ELSE IF ~kf.readable
       THEN SignOutcome(ERR_FILE, None, None, "none", <<file.path>>, <<>>)
       ELSE IF ~kf.loads
       THEN SignOutcome(ERR_KEY_LOAD, None, None, "none", <<file.path>>, lookups)
       ELSE SignLoadedKey(hash_algorithm, crypto_algorithm, kf, lib, <<file.path>>, lookups)

\* -------------------------------------------------------------------------
\* Latin1HeadersClientRequest.send: the request line and the headers written
\* -------------------------------------------------------------------------
GET == <<71, 69, 84>>
POST == <<80, 79, 83, 84>>
PUT == <<80, 85, 84>>
PATCH == <<80, 65, 84, 67, 72>>
CONNECT == <<67, 79, 78, 78, 69, 67, 84>>
POST_METHODS == {PATCH, POST, PUT}

HOST == <<72, 111, 115, 116>>
CONTENT_TYPE == <<67, 111, 110, 116, 101, 110, 116, 45, 84, 121, 112, 101>>
OCTET_STREAM ==
    <<97, 112, 112, 108, 105, 99, 97, 116, 105, 111, 110, 47, 111, 99, 116, 101, 116,
      45, 115, 116, 114, 101, 97, 109>>

\* the relayed url: https://example.test/ping
UrlHost == <<101, 120, 97, 109, 112, 108, 101, 46, 116, 101, 115, 116>>
UrlPort == <<52, 52, 51>>
UrlRawPath == <<47, 112, 105, 110, 103>>
HttpVersion == <<72, 84, 84, 80, 47, 49, 46, 49>>  \* "HTTP/1.1"

\* multidict's case-insensitive lookup: the first value under the name, or None
HeadersGet(headers, name) ==
    IF \E i \in DOMAIN headers : Upper(headers[i][1]) = Upper(name)
    THEN LET i == CHOOSE i \in DOMAIN headers :
                     /\ Upper(headers[i][1]) = Upper(name)
                     /\ \A j \in 1..(i - 1) : Upper(headers[j][1]) # Upper(name)
         IN Some(headers[i][2])
    ELSE None

\* lines 65-76: the request target (no proxy is configured, no query is sent)
RequestTarget(method) ==
    IF method = CONNECT THEN UrlHost \o <<Colon>> \o UrlPort ELSE UrlRawPath

\* lines 119-121
StatusLine(method) == method \o <<Space>> \o RequestTarget(method) \o <<Space>> \o HttpVersion

\* self.headers when send runs: the Host header the client sets, the caller's
\* headers, and the default content type of lines 98-103
SendHeaders(request) ==
    LET own == <<<<HOST, UrlHost>>>> \o request.headers
    IN IF request.method \in POST_METHODS /\ HeadersGet(own, CONTENT_TYPE) = None
       THEN Append(own, <<CONTENT_TYPE, OCTET_STREAM>>)
       ELSE own

\* -------------------------------------------------------------------------
\* ServerPlatform.makeRequest, lines 222-249: what becomes of the client's outcome
\* -------------------------------------------------------------------------
\* An outcome is a response [kind |-> "response", status, headers, body], a
\* ClientResponseError [kind |-> "ClientResponseError", status, message, headers
\* (optional)], or any other error [kind |-> "error", err].
Return(value) == [kind |-> "return", err |-> NoError, value |-> Some(value)]
Raise(err) == [kind |-> "raise", err |-> err, value |-> None]
NoResult == [kind |-> "none", err |-> NoError, value |-> None]

RelayResult(status, response, headers) ==
    [status |-> status, response |-> response, headers |-> headers]

\* a mutant: the handler of lines 239-249 removed
ExceptClientResponseErrorMissing(e) == Raise("aiohttp.ClientResponseError")

\* lines 239-249
ExceptClientResponseError(e) ==
    Return(RelayResult(e.status, e.message,
                       IF e.headers # None /\ e.headers[1] # <<>> THEN e.headers[1]
                       ELSE <<>>))

\* lines 222-225
IsOctetStream(headers) == HeadersGet(headers, CONTENT_TYPE) = Some(OCTET_STREAM)

\* lines 222-238; response.text() is taken to decode UTF-8
ResponseResult(response) ==
    LET unwrapped == IF IsOctetStream(response.headers)
                     THEN _handle_binary_response(response.body)
                     ELSE [err |-> NoError, bytes |-> response.body.raw]
        decoded == Utf8Decode(unwrapped.bytes)
    IN IF unwrapped.err # NoError THEN Raise(unwrapped.err)
       ELSE IF decoded.err # NoError THEN Raise(decoded.err)
       ELSE Return(RelayResult(response.status, decoded.text, response.headers))

\* lines 208-249 once the request is on the wire
OutcomeResult(outcome) ==
    IF outcome.kind = "response" THEN ResponseResult(outcome)
    ELSE IF outcome.kind = "ClientResponseError" THEN ExceptClientResponseError(outcome)
    ELSE Raise(outcome.err)

\* -------------------------------------------------------------------------
\* The inputs the calls are tried on
\* -------------------------------------------------------------------------
PathK == <<107>>                                     \* "k"
PathCa == <<99, 97, 46, 112, 101, 109>>               \* "ca.pem"
PathUp == <<46, 46, 47, 107>>                         \* "../k"
PathEtc == <<47, 101, 116, 99, 47, 107>>              \* "/etc/k"
PathBack ==                                           \* "../open_banking_certs/k"
    <<46, 46, 47, 111, 112, 101, 110, 95, 98, 97, 110, 107, 105, 110, 103, 95, 99,
      101, 114, 116, 115, 47, 107>>
PathSibling ==                                        \* "/app/open_banking_certsX/k"
    <<47, 97, 112, 112, 47, 111, 112, 101, 110, 95, 98, 97, 110, 107, 105, 110, 103,
      95, 99, 101, 114, 116, 115, 88, 47, 107>>
PathAbsInside ==                                      \* "/app/open_banking_certs/k"
    <<47, 97, 112, 112, 47, 111, 112, 101, 110, 95, 98, 97, 110, 107, 105, 110, 103,
      95, 99, 101, 114, 116, 115, 47, 107>>
PathTwoSlashes ==                                     \* "//app/open_banking_certs/k"
    <<47, 47, 97, 112, 112, 47, 111, 112, 101, 110, 95, 98, 97, 110, 107, 105, 110,
      103, 95, 99, 101, 114, 116, 115, 47, 107>>
PathBank ==                                           \* "certs/bank-1.key"
    <<99, 101, 114, 116, 115, 47, 98, 97, 110, 107, 45, 49, 46, 107, 101, 121>>

PathAlphabet == {97, Dot, Slash, Dash}

ShortPaths == SeqsUpTo(PathAlphabet, MaxPathLen)

LongPaths ==
    {PathK, PathUp, PathEtc, PathBack, PathSibling, PathAbsInside, PathTwoSlashes, PathBank}

KeyPaths == ShortPaths \cup LongPaths

TlsChoices ==
    {None} \cup
    {Some([cert_path |-> c, key_path |-> k, ca_cert_path |-> ca]) :
        c \in {PathK, PathUp, PathSibling},
        k \in {PathK, PathEtc},
        ca \in {None, Some(<<>>), Some(PathCa), Some(PathUp)}}

\* the caller's headers: a dict, so no name twice
HeaderX == <<88, 45, 73, 100>>                        \* "X-Id"
HeaderChoices ==
    { <<>>,
      <<<<HeaderX, <<118>>>>>>,                       \* X-Id: v
      <<<<HeaderX, <<233>>>>>>,                       \* a Latin-1 letter
      <<<<HeaderX, <<8364>>>>>>,                      \* a character outside Latin-1
      <<<<HeaderX, <<118, CR, LF, 119>>>>>>,          \* CR LF in a value
      <<<<HeaderX, <<118, LF>>>>>>,
      <<<<<<88, CR>>, <<118>>>>>>,                    \* CR in a name
      <<<<HeaderX, <<8364>>>>, <<<<89>>, <<CR>>>>>>,
      <<<<CONTENT_TYPE, <<116>>>>, <<HeaderX, <<>>>>>> }

Requests ==
    {[method |-> m, headers |-> h, tls |-> t] :
        m \in {GET, POST}, h \in HeaderChoices, t \in TlsChoices}
    \cup
    {[method |-> CONNECT, headers |-> h, tls |-> None] : h \in HeaderChoices}

\* what the certificate files turn out to be
FsDefault == [certOk |-> TRUE, keyEncrypted |-> FALSE, caOk |-> TRUE]
FsChoices ==
    {FsDefault,
     [certOk |-> TRUE, keyEncrypted |-> TRUE, caOk |-> TRUE],
     [certOk |-> FALSE, keyEncrypted |-> TRUE, caOk |-> TRUE],
     [certOk |-> FALSE, keyEncrypted |-> FALSE, caOk |-> TRUE],
     [certOk |-> TRUE, keyEncrypted |-> FALSE, caOk |-> FALSE]}

\* response bodies
ZipEntry(name, data, intact) == [name |-> name, data |-> data, intact |-> intact]
BytesPong == <<112, 111, 110, 103>>                   \* b"pong"
BytesOk == <<111, 107>>                               \* b"ok"
BytesEAcute == <<195, 169>>                           \* UTF-8 of U+00E9
BytesBad == <<112, 255>>                              \* not UTF-8
BytesPk == <<80, 75, 3, 4>>                           \* the start of a zip archive
BytesEmptyZip == <<80, 75, 5, 6>> \o Zeros(18)        \* the archive without entries
Bodies ==
    { [raw |-> BytesPong, archive |-> None],
      [raw |-> BytesEAcute, archive |-> None],
      [raw |-> BytesBad, archive |-> None],
      [raw |-> <<>>, archive |-> None],
      [raw |-> BytesEmptyZip, archive |-> Some(<<>>)],
      [raw |-> BytesPk, archive |-> Some(<<ZipEntry(<<97>>, BytesOk, TRUE)>>)],
      [raw |-> BytesPk \o <<255>>, archive |-> Some(<<ZipEntry(<<97>>, BytesOk, TRUE)>>)],
      [raw |-> BytesPk, archive |-> Some(<<ZipEntry(<<97>>, BytesBad, TRUE)>>)],
      [raw |-> BytesPk, archive |-> Some(<<ZipEntry(<<97>>, BytesOk, FALSE)>>)],
      [raw |-> BytesPk \o <<255>>, archive |-> Some(<<ZipEntry(<<97>>, BytesOk, FALSE)>>)],
      [raw |-> BytesPk,
       archive |-> Some(<<ZipEntry(<<97>>, BytesOk, TRUE), ZipEntry(<<98>>, BytesPong, TRUE)>>)] }

TextPlain == <<116, 101, 120, 116, 47, 112, 108, 97, 105, 110>>
SetCookie == <<83, 101, 116, 45, 67, 111, 111, 107, 105, 101>>
ResponseHeaderChoices ==
    { <<>>,
      <<<<CONTENT_TYPE, TextPlain>>>>,
      <<<<CONTENT_TYPE, OCTET_STREAM>>>>,
      <<<<Upper(CONTENT_TYPE), OCTET_STREAM>>,
        <<SetCookie, <<97>>>>, <<SetCookie, <<98>>>>, <<SetCookie, <<97>>>>>>,
      <<<<CONTENT_TYPE, Upper(OCTET_STREAM)>>>>,
      <<<<CONTENT_TYPE, OCTET_STREAM \o <<59>>>>>> }

ErrorMessage == <<66, 97, 100>>                       \* "Bad"
ERR_TIMEOUT == "asyncio.TimeoutError"
ERR_CONNECT == "aiohttp.ClientConnectorError"
ERR_DISCONNECTED == "aiohttp.ServerDisconnectedError"

Outcomes ==
    {[kind |-> "response", status |-> 200, headers |-> h, body |-> b] :
        h \in ResponseHeaderChoices, b \in Bodies}
    \cup
    {[kind |-> "response", status |-> 404, headers |-> <<>>, body |-> b] : b \in Bodies}
    \cup
    {[kind |-> "ClientResponseError", status |-> st, message |-> m, headers |-> h] :
        st \in {0, 400}, m \in {<<>>, ErrorMessage},
        h \in {None, Some(<<>>),
               Some(<<<<SetCookie, <<97>>>>, <<HeaderX, <<>>>>, <<SetCookie, <<97>>>>>>)}}
    \cup
    {[kind |-> "error", err |-> e] : e \in {ERR_TIMEOUT, ERR_DISCONNECTED}}

\* the process environment
EnvK == <<75, 95, 80, 65, 83, 83, 87, 79, 82, 68>>    \* "K_PASSWORD"
EnvA == <<65, 95, 80, 65, 83, 83, 87, 79, 82, 68>>    \* "A_PASSWORD"
EnvAA == <<65, 95, 65, 95, 80, 65, 83, 83, 87, 79, 82, 68>>  \* "A_A_PASSWORD"
EnvBank ==                                            \* "CERTS_BANK_1_KEY_PASSWORD"
    <<67, 69, 82, 84, 83, 95, 66, 65, 78, 75, 95, 49, 95, 75, 69, 89, 95, 80, 65, 83,
      83, 87, 79, 82, 68>>
Environs ==
    { {},
      {<<VERIFY_CERT, <<49>>>>},
      {<<VERIFY_CERT, <<>>>>},
      {<<VERIFY_CERT, <<48>>>>, <<EnvK, <<112, 119>>>>, <<EnvAA, <<112, 119>>>>},
      {<<EnvBank, <<112, 119>>>>, <<EnvA, <<>>>>} }

\* what the key file turns out to be, and the integers ECDSA draws
Filled(n, b) == [i \in 1..n |-> b]

\* the byte length of the order of the key's curve
CurveBytes == {24, 32, 48}

\* r and s range over 1..order-1: short ones, ones with the top bit set (DER then
\* adds a zero byte), and ones of the curve's full length
EcIntegers(curve_bytes) ==
    {<<200>>, Filled(curve_bytes - 1, 129), Filled(curve_bytes, 9),
     Filled(curve_bytes, 127)}

KeyFiles ==
    {[readable |-> FALSE, loads |-> FALSE, key |-> "none"],
     [readable |-> TRUE, loads |-> FALSE, key |-> "none"],
     [readable |-> TRUE, loads |-> TRUE, key |-> "Ed25519"],
     [readable |-> TRUE, loads |-> TRUE, key |-> "DSA"]}
    \cup
    {[readable |-> TRUE, loads |-> TRUE, key |-> "RSA", rsa_sig |-> sig] :
        sig \in {<<0, 1, 2>>, <<255, 254, 253, 252>>}}
    \cup
    UNION {{[readable |-> TRUE, loads |-> TRUE, key |-> "EC", curve_bytes |-> c,
             r |-> r, s |-> sv] : r \in EcIntegers(c), sv \in EcIntegers(c)} :
           c \in CurveBytes}

HashChoices ==
    {None, Some(SHA256), Some(<<115, 104, 97, 50, 53, 54>>),      \* "sha256"
     Some(<<83, 104, 97, 50, 53, 54>>),                           \* "Sha256"
     Some(<<77, 68, 53>>), Some(<<83, 72, 65, 53, 49, 50>>),      \* "MD5", "SHA512"
     Some(<<>>)}

CryptoChoices == {None, Some(PS), Some(<<112, 115>>)}

SignCall(data, key_path, hash_algorithm, crypto_algorithm) ==
    [op |-> "signWithKey", data |-> data, key_path |-> key_path,
     hash_algorithm |-> hash_algorithm, crypto_algorithm |-> crypto_algorithm]

DataText == [type |-> "str", v |-> <<233>>]
DataBytes == [type |-> "bytes", v |-> BytesBad]

RsaKeyFile == [readable |-> TRUE, loads |-> TRUE, key |-> "RSA", rsa_sig |-> <<0, 1, 2>>]

\* the calls of signWithKey tried, each <<arguments, key file, library>>: every key
\* path with the other arguments at their defaults, and every combination of the
\* other arguments with a path inside and a path outside the directory (the
\* library matters to an elliptic-curve key only)
SignCases ==
    {<<SignCall(DataText, k, None, None), kf, "to_bytes">> :
        k \in KeyPaths, kf \in {RsaKeyFile, [readable |-> FALSE, loads |-> FALSE, key |-> "none"]}}
    \cup
    {<<SignCall(d, PathK, None, None), RsaKeyFile, "to_bytes">> : d \in {DataText, DataBytes}}
    \cup
    {<<SignCall(DataText, k, h, c), kf, lib>> :
        k \in {PathK, PathUp}, h \in HashChoices, c \in CryptoChoices,
        kf \in KeyFiles, lib \in {"to_bytes"}}
    \cup
    {<<SignCall(DataText, k, h, c), kf, "unhexlify">> :
        k \in {PathK, PathUp}, h \in HashChoices, c \in CryptoChoices,
        kf \in {f \in KeyFiles : f.key = "EC"}}

\* -------------------------------------------------------------------------
\* The state: one call at a time runs to its end
\* -------------------------------------------------------------------------
VARIABLES
    environ,       \* os.environ, fixed when the process starts
    pc,            \* "idle", "session", "awaiting", "done"
    call,          \* the running call and its arguments
    world,         \* what the call has met outside: files, library, the peer's answer
    ssl_context,   \* makeRequest's ssl_context, once built
    loads,         \* the file paths this call handed to a loader or to open()
    lookups,       \* the environment variables this call looked up
    net,           \* the network activity of this call, in order
    conn,          \* the bytes this call wrote to the connection
    signature,     \* signWithKey's signature before base64 encoding, once computed
    result         \* what the call returned or raised

vars == <<environ, pc, call, world, ssl_context, loads, lookups, net, conn, signature, result>>

Idle == [op |-> "idle"]

Init ==
    /\ environ \in Environs
    /\ pc = "idle"
    /\ call = Idle
    /\ world = [none |-> TRUE]
    /\ ssl_context = None
    /\ loads = <<>>
    /\ lookups = <<>>
    /\ net = <<>>
    /\ conn = <<>>
    /\ signature = None
    /\ result = NoResult

\* makeRequest up to line 207: the TLS context is built before the session exists
MakeRequest(request, fs) ==
    /\ pc = "idle"
    /\ request.tls = None => fs = FsDefault
    /\ LET ssl == get_ssl_context(request.tls, environ, fs)
       IN /\ call' = [op |-> "makeRequest", request |-> request]
          /\ world' = [fs |-> fs]
          /\ ssl_context' = ssl.ctx
          /\ loads' = ssl.loads
          /\ lookups' = ssl.lookups
          /\ IF ssl.err # NoError
             THEN pc' = "done" /\ result' = Raise(ssl.err)
             ELSE pc' = "session" /\ result' = NoResult
    /\ UNCHANGED <<environ, net, conn, signature>>

\* lines 209-221: the session is opened but no connection is made; the client's
\* error is no ClientResponseError and leaves makeRequest
ConnectFails ==
    /\ pc = "session"
    /\ net' = <<"session", "connect">>
    /\ pc' = "done"
    /\ result' = Raise(ERR_CONNECT)
    /\ UNCHANGED <<environ, call, world, ssl_context, loads, lookups, conn, signature>>

\* lines 209-221 with Latin1HeadersClientRequest.send and
\* Latin1HeadersStreamWriter.write_headers: the connection is made and the
\* request line and headers are serialized, then written
SendRequest ==
    /\ pc = "session"
    /\ LET request == call.request
           buf == _py_serialize_headers(StatusLine(request.method), SendHeaders(request))
       IN IF buf.err # NoError
          THEN /\ net' = <<"session", "connect">>
               /\ conn' = conn
               /\ pc' = "done"
               /\ result' = Raise(buf.err)
          ELSE /\ net' = <<"session", "connect", "write">>
               /\ conn' = conn \o buf.bytes
               /\ pc' = "awaiting"
               /\ result' = result
    /\ UNCHANGED <<environ, call, world, ssl_context, loads, lookups, signature>>

\* lines 221-249: the client answers with a response or raises
ReceiveResponse(outcome) ==
    /\ pc = "awaiting"
    /\ world' = [fs |-> world.fs, outcome |-> outcome]
    /\ net' = Append(net, "read")
    /\ result' = OutcomeResult(outcome)
    /\ pc' = "done"
    /\ UNCHANGED <<environ, call, ssl_context, loads, lookups, conn, signature>>

\* signWithKey: it awaits nothing, so it runs in one step
SignWithKey(c, kf, lib) ==
    /\ pc = "idle"
    /\ LET out == signWithKey(c.data, c.key_path, c.hash_algorithm, c.crypto_algorithm,
                              environ, kf, lib)
       IN /\ call' = c
          /\ world' = [kf |-> kf, lib |-> lib]
          /\ loads' = out.loads
          /\ lookups' = out.lookups
          /\ signature' = out.signature
          /\ result' = IF out.err # NoError THEN Raise(out.err) ELSE Return(out.value[1])
    /\ pc' = "done"
    /\ UNCHANGED <<environ, ssl_context, net, conn>>

\* _read_key_password called on its own
ReadKeyPassword(key_path) ==
    /\ pc = "idle"
    /\ call' = [op |-> "_read_key_password", key_path |-> key_path]
    /\ lookups' = <<PasswordVarName(key_path)>>
    /\ result' = Return(_read_key_password(environ, key_path))
    /\ pc' = "done"
    /\ UNCHANGED <<environ, world, ssl_context, loads, net, conn, signature>>

\* the call is over and the next one may start: nothing of it is kept
Finish ==
    /\ pc = "done"
    /\ pc' = "idle"
    /\ call' = Idle
    /\ world' = [none |-> TRUE]
    /\ ssl_context' = None
    /\ loads' = <<>>
    /\ lookups' = <<>>
    /\ net' = <<>>
    /\ conn' = <<>>
    /\ signature' = None
    /\ result' = NoResult
    /\ UNCHANGED environ

StartMakeRequest ==
    pc = "idle" /\ \E request \in Requests, fs \in FsChoices : MakeRequest(request, fs)

Response == pc = "awaiting" /\ \E outcome \in Outcomes : ReceiveResponse(outcome)

Sign == pc = "idle" /\ \E case \in SignCases : SignWithKey(case[1], case[2], case[3])

Password == pc = "idle" /\ \E key_path \in KeyPaths : ReadKeyPassword(key_path)

Next ==
    \/ StartMakeRequest
    \/ ConnectFails
    \/ SendRequest
    \/ Response
    \/ Sign
    \/ Password
    \/ Finish

Spec == Init /\ [][Next]_vars

\* -------------------------------------------------------------------------
\* Vocabulary of the properties
\* -------------------------------------------------------------------------
InMakeRequest == call.op = "makeRequest"
InSign == call.op = "signWithKey"
InPassword == call.op = "_read_key_password"

\* the components of a path, the empty ones between slashes left out
Components(path) == SelectSeq(Split(path, Slash), LAMBDA c : c # <<>>)

\* the canonicalized join of the certificate root and p
CanonicalJoin(p) == AbsPath(PathJoin(OB_CERTS_DIR, p))

\* a canonical path is the root itself or lies beneath it
WithinRoot(path) == IsPrefix(Components(OB_CERTS_DIR), Components(path))

Escapes(p) == ~WithinRoot(CanonicalJoin(p))

IsAbsolute(path) == path # <<>> /\ path[1] = Slash

\* the strict-verification flag: verify_cert is set to a non-empty value
StrictFlag == \E e \in environ : e[1] = VERIFY_CERT /\ e[2] # <<>>

\* -------------------------------------------------------------------------
\* C1: the path check
\* -------------------------------------------------------------------------
\* what a call that resolves path p first, with nothing loaded before, shows of it
ResolvedFirst(p) ==
    IF Escapes(p)
    THEN result = Raise(ERR_NOT_INSIDE) /\ loads = <<>>
    ELSE /\ result # Raise(ERR_NOT_INSIDE) => loads # <<>>
         /\ loads # <<>> =>
               /\ loads[1] = CanonicalJoin(p)
               /\ IsAbsolute(loads[1])
               /\ WithinRoot(loads[1])

\* C1: _get_ob_certs_file_path fails with the path-escape error whenever the
\* canonicalized join of the root and the caller's path lies outside the root
\* (escaping ".." segments, an absolute path overriding the root), and otherwise
\* returns an absolute path that is the root or lies beneath it; every cert, key
\* or CA path that get_ssl_context or signWithKey hands to a file load has passed
\* the check in the same call.
C1_PathStaysInsideRoot ==
    /\ \A i \in DOMAIN loads : IsAbsolute(loads[i]) /\ WithinRoot(loads[i])
    /\ (InSign /\ pc = "done" /\ result # Raise(ERR_KEY)) => ResolvedFirst(call.key_path)
    /\ (InMakeRequest /\ call.request.tls # None) =>
          LET tls == call.request.tls[1]
          IN /\ ResolvedFirst(tls.cert_path)
             /\ ~Escapes(tls.cert_path) /\ Escapes(tls.key_path) =>
                   result = Raise(ERR_NOT_INSIDE) /\ loads = <<>>
             /\ Len(loads) >= 2 =>
                   loads[2] = CanonicalJoin(tls.key_path) /\ ~Escapes(tls.key_path)
             /\ (Len(loads) >= 2 /\ world.fs.certOk /\ tls.ca_cert_path # None
                 /\ tls.ca_cert_path # Some(<<>>)) =>
                   IF Escapes(tls.ca_cert_path[1])
                   THEN result = Raise(ERR_NOT_INSIDE) /\ Len(loads) = 2
                   ELSE Len(loads) = 3 /\ loads[3] = CanonicalJoin(tls.ca_cert_path[1])
             /\ Len(loads) = 3 => tls.ca_cert_path # None /\ ~Escapes(tls.ca_cert_path[1])

\* an absolute path beside the root, sharing its name as a prefix, is refused
C1_Witness ==
    /\ InSign /\ pc = "done"
    /\ call.key_path = PathSibling
    /\ result = Raise(ERR_NOT_INSIDE)
    /\ loads = <<>>

\* -------------------------------------------------------------------------
\* C2: header serialization
\* -------------------------------------------------------------------------
\* makeRequest has reached the writing of the request line and headers
SendTried ==
    InMakeRequest /\ pc \in {"awaiting", "done"} /\ Len(net) >= 2 /\ result # Raise(ERR_CONNECT)

HasCrOrLf(headers) ==
    \E i \in DOMAIN headers : \E k \in {1, 2} : \E j \in DOMAIN headers[i][k] :
        headers[i][k][j] \in {CR, LF}

AllLatin1(text) == \A i \in DOMAIN text : text[i] <= 255

RECURSIVE HeaderLines(_)
\* each header as "name: value" followed by CRLF
HeaderLines(headers) ==
    IF headers = <<>> THEN <<>>
    ELSE Head(headers)[1] \o <<Colon, Space>> \o Head(headers)[2] \o CRLF
         \o HeaderLines(Tail(headers))

\* the status line and the "name: value" pairs joined by CRLF, and a blank line
HeaderBlock(status_line, headers) ==
    status_line \o CRLF \o HeaderLines(headers) \o CRLF

\* C2 as the spec states it: CR or LF in a header name or value makes the
\* serialization fail with the header-injection error, nothing being written;
\* every other header set is written as the status line and the pairs joined by
\* CRLF and ended by a blank line.
C2_AsStated ==
    SendTried =>
        LET headers == SendHeaders(call.request)
            status_line == StatusLine(call.request.method)
        IN IF HasCrOrLf(headers)
           THEN result = Raise(ERR_HEADER_INJECTION) /\ conn = <<>>
           ELSE conn = HeaderBlock(status_line, headers)

\* C2, amended: as stated for the header sets whose characters all have a
\* Latin-1 encoding; a header set without CR and LF that holds a character
\* outside Latin-1 makes the serialization fail with an encoding error, and
\* nothing is written then either.
C2_HeaderSerialization ==
    SendTried =>
        LET headers == SendHeaders(call.request)
            status_line == StatusLine(call.request.method)
            block == HeaderBlock(status_line, headers)
        IN IF HasCrOrLf(headers)
           THEN result = Raise(ERR_HEADER_INJECTION) /\ conn = <<>> /\ pc = "done"
           ELSE IF AllLatin1(block)
           THEN conn = block /\ result.err \notin {ERR_HEADER_INJECTION, ERR_UNICODE_ENCODE}
           ELSE result = Raise(ERR_UNICODE_ENCODE) /\ conn = <<>> /\ pc = "done"

\* a carriage return in a header name stops the request before a byte is written
C2_Witness ==
    /\ SendTried
    /\ \E i \in DOMAIN call.request.headers : CR \in Range(call.request.headers[i][1])
    /\ ~(\E i \in DOMAIN call.request.headers : \E k \in {1, 2} :
            LF \in Range(call.request.headers[i][k]))
    /\ result = Raise(ERR_HEADER_INJECTION)
    /\ conn = <<>>

\* -------------------------------------------------------------------------
\* C3, C4: the verification policy
\* -------------------------------------------------------------------------
\* the client certificate and key of the call resolve inside the root and load
ClientIdentityLoads(tls) ==
    ~Escapes(tls.cert_path) /\ ~Escapes(tls.key_path) /\ world.fs.certOk

\* a CA bundle, when one is named, resolves inside the root and loads
CaLoads(tls) ==
    (tls.ca_cert_path # None /\ tls.ca_cert_path # Some(<<>>)) =>
        ~Escapes(tls.ca_cert_path[1]) /\ world.fs.caOk

\* C3 as the spec states it: with the strict-verification flag set and no
\* ca_cert_path in the TLS parameters, get_ssl_context fails with the
\* configuration error, in makeRequest before any network activity.
C3_AsStated ==
    (InMakeRequest /\ StrictFlag /\ call.request.tls # None
     /\ call.request.tls[1].ca_cert_path = None) =>
        /\ pc = "done"
        /\ result = Raise(ERR_CA_REQUIRED)
        /\ net = <<>> /\ conn = <<>>

\* C3, amended: with the strict-verification flag set and no ca_cert_path in
\* the TLS parameters, get_ssl_context fails, in makeRequest before any network
\* activity; the failure is the configuration error when the cert and key paths
\* resolve inside the certificate root and the client certificate and key load,
\* and the path-escape or certificate-load error raised before it otherwise.
C3_StrictWithoutCaFails ==
    (InMakeRequest /\ StrictFlag /\ call.request.tls # None
     /\ call.request.tls[1].ca_cert_path = None) =>
        LET tls == call.request.tls[1]
        IN /\ pc = "done"
           /\ result.kind = "raise"
           /\ ssl_context = None
           /\ net = <<>> /\ conn = <<>>
           /\ IF ClientIdentityLoads(tls) THEN result.err = ERR_CA_REQUIRED
              ELSE IF Escapes(tls.cert_path) \/ Escapes(tls.key_path)
              THEN result.err = ERR_NOT_INSIDE
              ELSE result.err = ERR_SSL_LOAD

\* the configuration error, raised with the client identity already loaded
C3_Witness ==
    /\ InMakeRequest /\ StrictFlag
    /\ call.request.tls # None
    /\ call.request.tls[1].ca_cert_path = None
    /\ Len(loads) = 2
    /\ result = Raise(ERR_CA_REQUIRED)
    /\ net = <<>>

\* the context validates the server's certificate and checks its host name
Validates(ctx) == ctx.verify_mode = CERT_REQUIRED /\ ctx.check_hostname

\* both are turned off
Permissive(ctx) == ctx.verify_mode = CERT_NONE /\ ~ctx.check_hostname

Answered == InMakeRequest /\ pc = "done" /\ "outcome" \in DOMAIN world

\* C5: a ClientResponseError raised by the client during makeRequest is not
\* propagated: makeRequest returns a result of the shape of a successful one,
\* its status the error's status, its response the error's message, its headers
\* the error's headers in order with duplicates kept, or the empty list when the
\* error carries none.
C5_ResponseErrorNormalized ==
    (Answered /\ world.outcome.kind = "ClientResponseError") =>
        LET e == world.outcome
        IN /\ result.kind = "return"
           /\ DOMAIN result.value[1] = {"status", "response", "headers"}
           /\ result.value[1].status = e.status
           /\ result.value[1].response = e.message
           /\ result.value[1].headers = (IF e.headers = None THEN <<>> ELSE e.headers[1])

\* an error carrying the same header twice
C5_Witness ==
    /\ Answered
    /\ world.outcome.kind = "ClientResponseError"
    /\ world.outcome.headers # None
    /\ Len(world.outcome.headers[1]) = 3
    /\ world.outcome.headers[1][1] = world.outcome.headers[1][3]
    /\ result.kind = "return"
    /\ result.value[1].headers = world.outcome.headers[1]

\* the response's Content-Type is exactly application/octet-stream
ExactlyOctetStream(headers) ==
    \E i \in DOMAIN headers :
        /\ Upper(headers[i][1]) = Upper(CONTENT_TYPE)
        /\ \A j \in 1..(i - 1) : Upper(headers[j][1]) # Upper(CONTENT_TYPE)
        /\ headers[i][2] = OCTET_STREAM

\* C7: for a response whose Content-Type is exactly application/octet-stream
\* makeRequest never fails because of the unwrap step (the one failure left is
\* text that cannot be decoded): a valid zip archive gives the decompressed
\* content of its first listed entry as the body, a body that is no zip archive
\* gives the raw body decoded as text.
C7_AsStated ==
    (Answered /\ world.outcome.kind = "response"
     /\ ExactlyOctetStream(world.outcome.headers)) =>
        LET body == world.outcome.body
        IN /\ result.kind = "raise" => result.err = ERR_UNICODE_DECODE
           /\ (body.archive = None /\ Utf8Decode(body.raw).err = NoError) =>
                 /\ result.kind = "return"
                 /\ result.value[1].response = Utf8Decode(body.raw).text
           /\ (body.archive # None /\ body.archive[1] # <<>> /\ body.archive[1][1].intact
               /\ Utf8Decode(body.archive[1][1].data).err = NoError) =>
                 /\ result.kind = "return"
                 /\ result.value[1].response = Utf8Decode(body.archive[1][1].data).text

\* -------------------------------------------------------------------------
\* C6, C8, C9: signWithKey
\* -------------------------------------------------------------------------
Signed == InSign /\ pc = "done"

\* the key file was read and its key loaded
KeyLoaded ==
    /\ Signed
    /\ result.err \notin {ERR_KEY, ERR_WRONG_HASH, ERR_NOT_INSIDE}
    /\ world.kf.readable /\ world.kf.loads

\* C6: a loaded private key that is neither an RSA key nor an elliptic-curve
\* key makes signWithKey fail with an unsupported-key-type error; no signature
\* string is returned.
C6_AsStated ==
    (KeyLoaded /\ world.kf.key \notin {"RSA", "EC"}) => result.kind = "raise"

\* the hash algorithm's name as signWithKey compares it: SHA256 when absent,
\* upper case
ComparedHashName ==
    LET given == IF call.hash_algorithm = None THEN SHA256 ELSE call.hash_algorithm[1]
    IN [i \in DOMAIN given |->
           IF given[i] >= 97 /\ given[i] <= 122 THEN given[i] - 32 ELSE given[i]]

\* C8: signWithKey takes an absent hash_algorithm as "SHA256" and compares the
\* name without regard to case; a name outside the supported set {SHA256} makes
\* it fail with the unsupported-algorithm error before the key file is read and
\* before a signature is computed.
C8_AsStated ==
    Signed =>
        IF ComparedHashName = SHA256
        THEN result.err \notin {ERR_KEY, ERR_WRONG_HASH}
        ELSE /\ result = Raise(ERR_WRONG_HASH)
             /\ loads = <<>> /\ lookups = <<>> /\ signature = None

\* n as a big-endian byte string of the given width, zero bytes on the left
LeftPadded(n, width) ==
    [i \in 1..width |-> IF i <= width - Len(n) THEN 0 ELSE n[i - (width - Len(n))]]

EcSigned == KeyLoaded /\ world.kf.key = "EC"

\* C9 as the spec states it: for every elliptic-curve key and SHA-256 the
\* signature before base64 encoding is 64 bytes, r left-padded to 32 bytes
\* followed by s left-padded to 32 bytes, whatever (r, s) the signing step gives.
C9_AsStated ==
    EcSigned =>
        /\ result.kind = "return"
        /\ signature # None
        /\ Len(signature[1]) = 64
        /\ signature[1] = LeftPadded(world.kf.r, 32) \o LeftPadded(world.kf.s, 32)

\* -------------------------------------------------------------------------
\* C10: the password variable
\* -------------------------------------------------------------------------
PasswordSuffix == <<95, 80, 65, 83, 83, 87, 79, 82, 68>>  \* "_PASSWORD"

\* name is k with "-", "." and "/" replaced by "_", upper-cased, "_PASSWORD" appended
IsPasswordVariableOf(name, k) ==
    /\ Len(name) = Len(k) + Len(PasswordSuffix)
    /\ \A i \in DOMAIN k :
          name[i] = (IF k[i] \in {Dash, Dot, Slash} THEN Underscore
                     ELSE IF k[i] >= 97 /\ k[i] <= 122 THEN k[i] - 32
                     ELSE k[i])
    /\ \A i \in DOMAIN PasswordSuffix : name[Len(k) + i] = PasswordSuffix[i]

\* C10: for every key path k, _read_key_password looks up exactly the
\* environment variable named k with "-", "." and "/" replaced by "_",
\* upper-cased, "_PASSWORD" appended (certs/bank-1.key gives
\* CERTS_BANK_1_KEY_PASSWORD); the name depends on k alone, and the result is the
\* variable's value when it is set and absent when it is not.
C10_PasswordVariable ==
    /\ (InPassword /\ pc = "done") =>
          /\ Len(lookups) = 1
          /\ IsPasswordVariableOf(lookups[1], call.key_path)
          /\ call.key_path = PathBank => lookups[1] = EnvBank
          /\ result.kind = "return"
          /\ \A e \in environ : e[1] = lookups[1] => result.value[1] = Some(e[2])
          /\ (\A e \in environ : e[1] # lookups[1]) => result.value[1] = None
    /\ (InSign /\ lookups # <<>>) =>
          Len(lookups) = 1 /\ IsPasswordVariableOf(lookups[1], call.key_path)
    /\ (InMakeRequest /\ lookups # <<>>) =>
          Len(lookups) = 1 /\ IsPasswordVariableOf(lookups[1], call.request.tls[1].key_path)

\* the spec's example, with the variable set
C10_Witness ==
    /\ InPassword /\ pc = "done"
    /\ call.key_path = PathBank
    /\ lookups = <<EnvBank>>
    /\ result = Return(Some(<<112, 119>>))

=============================================================================
